---- MODULE Spec2Model ----
(***************************************************************************)
(* pandas2sql: SQL text generation from tables (generators.py) and table   *)
(* constraints (constraints.py).                                           *)
(*                                                                         *)
(* A Python str is modelled as a sequence of one-character strings, so     *)
(* that quoting, escaping, upper-casing, joining and formatting are        *)
(* computed character by character, as the code computes them.  A list of  *)
(* str is a sequence of such sequences.                                    *)
(***************************************************************************)
EXTENDS Integers, Sequences, FiniteSets, TLC

VARIABLES df, obj, ctor, call, ret

vars == <<df, obj, ctor, call, ret>>

(***************************************************************************)
(* Bounds of the model.                                                    *)
(***************************************************************************)
\* longest column list of a constraint
MaxKeyCols == 2
\* most columns of a table
MaxCols == 2
\* most rows of a table
MaxRows == 3
\* largest batch size tried (the smallest is -MaxBatch)
MaxBatch == 3
\* longest constraint list handed to generate_schema
MaxConstraints == 2
\* longest string handed to _quote directly
MaxLen == 4

(***************************************************************************)
(* Python built-ins used by the code.                                      *)
(***************************************************************************)
\* sep.join(list)
RECURSIVE join(_, _)
join(sep, list) ==
    IF list = <<>> THEN <<>>
    ELSE IF Len(list) = 1 THEN list[1]
    ELSE list[1] \o sep \o join(sep, Tail(list))

LowerLetters ==
    <<"a", "b", "c", "d", "e", "f", "g", "h", "i", "j", "k", "l", "m",
      "n", "o", "p", "q", "r", "s", "t", "u", "v", "w", "x", "y", "z">>

UpperLetters ==
    <<"A", "B", "C", "D", "E", "F", "G", "H", "I", "J", "K", "L", "M",
      "N", "O", "P", "Q", "R", "S", "T", "U", "V", "W", "X", "Y", "Z">>

\* str.upper() of one character (ASCII letters; others are unchanged)
upper_char(c) ==
    IF \E i \in 1..Len(LowerLetters) : LowerLetters[i] = c
    THEN UpperLetters[CHOOSE i \in 1..Len(LowerLetters) : LowerLetters[i] = c]
    ELSE c

\* str.upper()
RECURSIVE upper(_)
upper(s) ==
    IF s = <<>> THEN <<>> ELSE <<upper_char(Head(s))>> \o upper(Tail(s))

\* the sequences over S of length lo..hi
SeqsOf(S, lo, hi) == UNION {[1..n -> S] : n \in lo..hi}

\* the outcome of a call: a returned value or a raised exception
Return(v) == [kind |-> "return", value |-> v]

Raise(e, m) == [kind |-> "raise", exc |-> e, msg |-> m]

(***************************************************************************)
(* Identifier quoting of the four dialect classes (generators.py).         *)
(***************************************************************************)
Dialects == {"MSSQLGenerator", "MySQLGenerator", "PostgreSQLGenerator", "SQLiteGenerator"}

MSSQLGenerator_id(identifier) == <<"[">> \o identifier \o <<"]">>

\* the grave accent U+0060, which a TLA+ string literal cannot hold: one character
BACKTICK == "U+0060"

\* MySQL quoting that also upper-cases the identifier
MySQLGenerator_id_upper(identifier) == <<BACKTICK>> \o upper(identifier) \o <<BACKTICK>>

MySQLGenerator_id(identifier) == <<BACKTICK>> \o identifier \o <<BACKTICK>>

PostgreSQLGenerator_id(identifier) == <<"\"">> \o identifier \o <<"\"">>

SQLiteGenerator_id(identifier) == <<"\"">> \o identifier \o <<"\"">>

\* self._id of an instance of class cls; also the id_fn handed to make()
_id(cls, identifier) ==
    CASE cls = "MSSQLGenerator" -> MSSQLGenerator_id(identifier)
      [] cls = "MySQLGenerator" -> MySQLGenerator_id(identifier)
      [] cls = "PostgreSQLGenerator" -> PostgreSQLGenerator_id(identifier)
      [] cls = "SQLiteGenerator" -> SQLiteGenerator_id(identifier)

(***************************************************************************)
(* constraints.py                                                          *)
(***************************************************************************)
\* a columns argument: Union[List[str], str]
StrArg(s) == [isstr |-> TRUE, str |-> s, list |-> <<>>]

ListArg(l) == [isstr |-> FALSE, str |-> <<>>, list |-> l]

\* an Optional[str] argument: None, or a str
None == [given |-> FALSE, v |-> <<>>]

Some(s) == [given |-> TRUE, v |-> s]

\* Python truthiness of an Optional[str]: None and "" are falsy
truthy(a) == a.given /\ a.v # <<>>

NoObject == [cls |-> "None"]

\* a str iterated as a list: its one-character strings
chars_as_list(s) == [i \in 1..Len(s) |-> <<s[i]>>]

\* PrimaryKey.__init__ without the isinstance(columns, str) wrapping
PrimaryKey_init_unwrapped(columns) ==
    [cls |-> "PrimaryKey",
     columns |-> IF columns.isstr THEN chars_as_list(columns.str) ELSE columns.list]

PrimaryKey_init(columns) ==
    [cls |-> "PrimaryKey",
     columns |-> IF columns.isstr THEN <<columns.str>> ELSE columns.list]

PrimaryKey_make(self, id_fn) ==
    LET name == _id(id_fn, <<"P", "K", "_">> \o join(<<"_">>, self.columns))
        columns == join(<<",", " ">>, [i \in 1..Len(self.columns) |-> _id(id_fn, self.columns[i])])
    IN  <<"C", "O", "N", "S", "T", "R", "A", "I", "N", "T", " ">> \o name \o <<" ", "P", "R", "I", "M", "A", "R", "Y", " ", "K", "E", "Y", " ", "(">> \o columns \o <<")">>

valid ==
    << <<"N", "O", " ", "A", "C", "T", "I", "O", "N">>,
       <<"R", "E", "S", "T", "R", "I", "C", "T">>,
       <<"C", "A", "S", "C", "A", "D", "E">>,
       <<"S", "E", "T", " ", "N", "U", "L", "L">>,
       <<"S", "E", "T", " ", "D", "E", "F", "A", "U", "L", "T">> >>

\* x in valid (tuple membership)
in_valid(x) == \E i \in 1..Len(valid) : valid[i] = x

ForeignKey_init(columns, ref_table, ref_columns, delete, update) ==
    LET cols == IF columns.isstr THEN <<columns.str>> ELSE columns.list
        refs == IF ref_columns.isstr THEN <<ref_columns.str>> ELSE ref_columns.list
    IN  IF truthy(delete) /\ ~in_valid(upper(delete.v))
        THEN Raise("ValueError",
                   <<"I", "n", "v", "a", "l", "i", "d", " ", "d", "e", "l", "e", "t", "e", " ", "a", "c", "t", "i", "o", "n", " ">> \o delete.v
                   \o <<",", " ", "c", "h", "o", "o", "s", "e", " ", "o", "n", "e", " ", "o", "f", ":", " ">> \o join(<<",", " ">>, valid))
        ELSE IF truthy(update) /\ ~in_valid(upper(update.v))
        THEN Raise("ValueError",
                   <<"I", "n", "v", "a", "l", "i", "d", " ", "u", "p", "d", "a", "t", "e", " ", "a", "c", "t", "i", "o", "n", " ">> \o update.v
                   \o <<",", " ", "c", "h", "o", "o", "s", "e", " ", "o", "n", "e", " ", "o", "f", ":", " ", " ">> \o join(<<",", " ">>, valid))
        ELSE Return([cls |-> "ForeignKey",
                     columns |-> cols,
                     ref_table |-> ref_table,
                     ref_columns |-> refs,
                     delete |-> delete,
                     update |-> update])

ForeignKey_make(self, id_fn) ==
    LET name == _id(id_fn, <<"F", "K", "_">> \o join(<<"_">>, self.columns))
        columns == join(<<",", " ">>, [i \in 1..Len(self.columns) |-> _id(id_fn, self.columns[i])])
        ref_table == _id(id_fn, self.ref_table)
        ref_columns == join(<<",", " ">>, [i \in 1..Len(self.columns) |-> _id(id_fn, self.columns[i])])
        constraint == <<"C", "O", "N", "S", "T", "R", "A", "I", "N", "T", " ">> \o name \o <<" ", "F", "O", "R", "E", "I", "G", "N", " ", "K", "E", "Y", " ", "(">> \o columns \o <<")", " ">>
                      \o <<"R", "E", "F", "E", "R", "E", "N", "C", "E", "S", " ">> \o ref_table \o <<"(">> \o ref_columns \o <<")">>
        with_delete == IF truthy(self.delete)
                       THEN constraint \o <<" ", "O", "N", " ", "D", "E", "L", "E", "T", "E", " ">> \o upper(self.delete.v)
                       ELSE constraint
    IN  IF truthy(self.update)
        THEN with_delete \o <<" ", "O", "N", " ", "U", "P", "D", "A", "T", "E", " ">> \o upper(self.update.v)
        ELSE with_delete

\* constraint.make(id_fn): dispatch on the object's class
make(self, id_fn) ==
    IF self.cls = "PrimaryKey" THEN PrimaryKey_make(self, id_fn)
    ELSE ForeignKey_make(self, id_fn)

(***************************************************************************)
(* generators.py: Python and pandas operations the generator uses.         *)
(***************************************************************************)
\* " " * n
RECURSIVE spaces(_)
spaces(n) == IF n <= 0 THEN <<>> ELSE <<" ">> \o spaces(n - 1)

\* value.replace(old, new) for a one-character old
RECURSIVE str_replace(_, _, _)
str_replace(value, old, new) ==
    IF value = <<>> THEN <<>>
    ELSE (IF <<Head(value)>> = old THEN new ELSE <<Head(value)>>)
         \o str_replace(Tail(value), old, new)

Digits == <<"0", "1", "2", "3", "4", "5", "6", "7", "8", "9">>

\* str(n) of a non-negative int
RECURSIVE str_nat(_)
str_nat(n) ==
    IF n < 10 THEN <<Digits[n + 1]>>
    ELSE str_nat(n \div 10) \o <<Digits[(n % 10) + 1]>>

\* str(n) of an int
str_int(n) == IF n < 0 THEN <<"-">> \o str_nat(-n) ELSE str_nat(n)

\* a number zero-padded to a width, as the strftime fields %Y %m %d %H %M %S
RECURSIVE zero_pad(_, _)
zero_pad(s, width) == IF Len(s) >= width THEN s ELSE zero_pad(<<"0">> \o s, width)

\* value.strftime("%Y-%m-%d")
strftime_date(value) ==
    zero_pad(str_nat(value.year), 4) \o <<"-">> \o zero_pad(str_nat(value.month), 2)
    \o <<"-">> \o zero_pad(str_nat(value.day), 2)

\* the %z field: empty for a naive value, else the UTC offset as +HHMM or -HHMM
strftime_z(value) ==
    IF ~value.aware THEN <<>>
    ELSE LET m == IF value.utcoffset < 0 THEN -value.utcoffset ELSE value.utcoffset
         IN  (IF value.utcoffset < 0 THEN <<"-">> ELSE <<"+">>)
             \o zero_pad(str_nat(m \div 60), 2) \o zero_pad(str_nat(m % 60), 2)

\* value.strftime("%Y-%m-%dT%H:%M:%S%z")
strftime_datetime(value) ==
    strftime_date(value) \o <<"T">> \o zero_pad(str_nat(value.hour), 2)
    \o <<":">> \o zero_pad(str_nat(value.minute), 2)
    \o <<":">> \o zero_pad(str_nat(value.second), 2) \o strftime_z(value)

\* str(value) of a cell that series.astype(str) leaves unquoted
astype_str(value) ==
    CASE value.t = "int" -> str_int(value.n)
      [] value.t = "bool" -> (IF value.b THEN <<"T", "r", "u", "e">> ELSE <<"F", "a", "l", "s", "e">>)
      [] value.t = "complex" ->
            <<"(">> \o str_int(value.re) \o <<"+">> \o str_int(value.im) \o <<"j", ")">>
      [] value.t = "str" -> value.s

\* range(start, stop, step) as a list; step = 0 raises ValueError
RECURSIVE range_list(_, _, _)
range_list(start, stop, step) ==
    IF (step > 0 /\ start >= stop) \/ (step < 0 /\ start <= stop) THEN <<>>
    ELSE <<start>> \o range_list(start + step, stop, step)

range(start, stop, step) ==
    IF step = 0 THEN Raise("ValueError", <<"r", "a", "n", "g", "e", "(", ")", " ", "a", "r", "g", " ", "3", " ", "m", "u", "s", "t", " ", "n", "o", "t", " ", "b", "e", " ", "z", "e", "r", "o">>)
    ELSE Return(range_list(start, stop, step))

\* values[lo : hi] for 0 <= lo <= hi (0-based, hi exclusive, clipped to the length)
slice(values, lo, hi) ==
    SubSeq(values, lo + 1, IF hi > Len(values) THEN Len(values) ELSE hi)

\* pd._libs.lib.infer_dtype(series): the classification the column carries
infer_dtype(series) == series.dtype

(***************************************************************************)
(* generators.py: class SQLGenerator.  self is [cls, _indent].             *)
(***************************************************************************)
_SQL_TYPES ==
    { << <<"s", "t", "r", "i", "n", "g">>, <<"T", "E", "X", "T">> >>,
      << <<"f", "l", "o", "a", "t", "i", "n", "g">>, <<"R", "E", "A", "L">> >>,
      << <<"i", "n", "t", "e", "g", "e", "r">>, <<"I", "N", "T", "E", "G", "E", "R">> >>,
      << <<"d", "a", "t", "e", "t", "i", "m", "e">>, <<"T", "I", "M", "E", "S", "T", "A", "M", "P">> >>,
      << <<"d", "a", "t", "e", "t", "i", "m", "e", "6", "4">>, <<"T", "I", "M", "E", "S", "T", "A", "M", "P">> >>,
      << <<"d", "a", "t", "e">>, <<"D", "A", "T", "E">> >>,
      << <<"t", "i", "m", "e">>, <<"T", "I", "M", "E">> >>,
      << <<"b", "o", "o", "l", "e", "a", "n">>, <<"I", "N", "T", "E", "G", "E", "R">> >> }

\* the default of __init__'s indent
DefaultIndent == 2

SQLGenerator_init(cls, indent) == [cls |-> cls, _indent |-> indent]

\* _quote without the doubling of embedded quotes
_quote_undoubled(value) == <<"'">> \o value \o <<"'">>

_quote(value) == <<"'">> \o str_replace(value, <<"'">>, <<"'", "'">>) \o <<"'">>

_date(value) == _quote(strftime_date(value))

_datetime(value) == _quote(strftime_datetime(value))

\* _lookup_dtype that falls back to TEXT instead of raising
_lookup_dtype_fallback(dtype, col) ==
    IF \E p \in _SQL_TYPES : p[1] = dtype
    THEN Return((CHOOSE p \in _SQL_TYPES : p[1] = dtype)[2])
    ELSE Return(<<"T", "E", "X", "T">>)

_lookup_dtype(dtype, col) ==
    IF ~(\E p \in _SQL_TYPES : p[1] = dtype)
    THEN Raise("TypeError",
               <<"U", "n", "s", "u", "p", "p", "o", "r", "t", "e", "d", " ", "d", "a", "t", "a", " ", "t", "y", "p", "e", " ", "'">> \o dtype \o <<"'", " ", "f", "o", "r", " ", "c", "o", "l", "u", "m", "n", " ", "'">> \o col \o <<"'", ".">>)
    ELSE Return((CHOOSE p \in _SQL_TYPES : p[1] = dtype)[2])

\* the dict comprehension of _map_dtypes from column i on: the (key, value) pairs in
\* insertion order, or the first exception raised
RECURSIVE map_dtypes_from(_, _, _)
map_dtypes_from(self, frame, i) ==
    IF i > Len(frame) THEN Return(<<>>)
    ELSE LET r == _lookup_dtype(infer_dtype(frame[i]), frame[i].name)
         IN  IF r.kind = "raise" THEN r
             ELSE LET rest == map_dtypes_from(self, frame, i + 1)
                  IN  IF rest.kind = "raise" THEN rest
                      ELSE Return(<< <<_id(self.cls, frame[i].name), r.value>> >>
                                  \o rest.value)

_map_dtypes(self, frame) == map_dtypes_from(self, frame, 1)

_convert_series(series) ==
    LET dtype == infer_dtype(series)
    IN  IF dtype \in { <<"s", "t", "r", "i", "n", "g">>, <<"c", "a", "t", "e", "g", "o", "r", "i", "c", "a", "l">>, <<"b", "y", "t", "e", "s">> }
        THEN [i \in 1..Len(series.values) |-> _quote(series.values[i].s)]
        ELSE IF dtype \in { <<"d", "a", "t", "e", "t", "i", "m", "e">>, <<"d", "a", "t", "e", "t", "i", "m", "e", "6", "4">> }
        THEN [i \in 1..Len(series.values) |-> _datetime(series.values[i])]
        ELSE IF dtype = <<"d", "a", "t", "e">>
        THEN [i \in 1..Len(series.values) |-> _date(series.values[i])]
        ELSE [i \in 1..Len(series.values) |-> astype_str(series.values[i])]

\* generate_schema that drops the constraints
generate_schema_no_constraints(self, frame, table_name, constraints) ==
    LET table == _id(self.cls, table_name)
        mapped == _map_dtypes(self, frame)
    IN  IF mapped.kind = "raise" THEN mapped
        ELSE LET table_spec ==
                     [i \in 1..Len(mapped.value) |->
                         spaces(self._indent) \o mapped.value[i][1] \o <<" ">> \o mapped.value[i][2]]
             IN  Return(<<"C", "R", "E", "A", "T", "E", " ", "T", "A", "B", "L", "E", " ">> \o table \o <<" ", "(", "\n">>
                        \o join(<<",", "\n">>, table_spec) \o <<"\n", ")", ";", "\n">>)

generate_schema(self, frame, table_name, constraints) ==
    LET table == _id(self.cls, table_name)
        mapped == _map_dtypes(self, frame)
    IN  IF mapped.kind = "raise" THEN mapped
        ELSE LET columns == [i \in 1..Len(mapped.value) |->
                                mapped.value[i][1] \o <<" ">> \o mapped.value[i][2]]
                 made == IF constraints.given /\ constraints.v # <<>>
                         THEN [i \in 1..Len(constraints.v) |->
                                  make(constraints.v[i], self.cls)]
                         ELSE <<>>
                 table_spec == columns \o made
                 indented == [i \in 1..Len(table_spec) |->
                                 spaces(self._indent) \o table_spec[i]]
                 table_spec_str == join(<<",", "\n">>, indented)
             IN  Return(<<"C", "R", "E", "A", "T", "E", " ", "T", "A", "B", "L", "E", " ">> \o table \o <<" ", "(", "\n">> \o table_spec_str \o <<"\n", ")", ";", "\n">>)

\* the number of rows of a frame
len(frame) == IF frame = <<>> THEN 0 ELSE Len(frame[1].values)

\* the formatted rows of a frame: conversion per column, then one string per row
row_strings(self, frame) ==
    LET converted == [c \in 1..Len(frame) |-> _convert_series(frame[c])]
    IN  [r \in 1..len(frame) |->
            spaces(self._indent) \o <<"(">>
            \o join(<<",", " ">>, [c \in 1..Len(frame) |-> converted[c][r]]) \o <<")">>]

\* batching that stops after the first batch
batch_starts_first_only(n, batch) ==
    IF batch = 0 THEN Raise("ValueError", <<"r", "a", "n", "g", "e", "(", ")", " ", "a", "r", "g", " ", "3", " ", "m", "u", "s", "t", " ", "n", "o", "t", " ", "b", "e", " ", "z", "e", "r", "o">>)
    ELSE Return(IF n > 0 /\ batch > 0 THEN <<0>> ELSE <<>>)

\* the start indexes of the batches: range(0, len(df), batch)
batch_starts(n, batch) == range(0, n, batch)

generate_inserts(self, frame, table_name, batch) ==
    LET table == _id(self.cls, table_name)
        column_spec == join(<<",", " ">>, [c \in 1..Len(frame) |-> _id(self.cls, frame[c].name)])
        rows == row_strings(self, frame)
        starts == batch_starts(Len(rows), batch)
    IN  IF starts.kind = "raise" THEN starts
        ELSE Return([k \in 1..Len(starts.value) |->
                        <<"I", "N", "S", "E", "R", "T", " ", "I", "N", "T", "O", " ">> \o table \o <<" ", "(">> \o column_spec
                        \o <<")", "\n", "V", "A", "L", "U", "E", "S", "\n">>
                        \o join(<<",", "\n">>, slice(rows, starts.value[k], starts.value[k] + batch))
                        \o <<"\n", ";", "\n", "\n">>])

(***************************************************************************)
(* Tables: columns drawn from a pool, each with its first R values.        *)
(***************************************************************************)
IntCell(n) == [t |-> "int", n |-> n]

StrCell(s) == [t |-> "str", s |-> s]

BoolCell(b) == [t |-> "bool", b |-> b]

ComplexCell(re, im) == [t |-> "complex", re |-> re, im |-> im]

DateCell(y, m, d) == [t |-> "date", year |-> y, month |-> m, day |-> d]

DateTimeCell(y, m, d, H, M, S, aware, utcoffset) ==
    [t |-> "datetime", year |-> y, month |-> m, day |-> d, hour |-> H, minute |-> M,
     second |-> S, aware |-> aware, utcoffset |-> utcoffset]

ColumnPool ==
    { [name |-> <<"i", "d">>, dtype |-> <<"i", "n", "t", "e", "g", "e", "r">>,
       values |-> <<IntCell(1), IntCell(-20), IntCell(305), IntCell(0), IntCell(7)>>],
      [name |-> <<"n", "a", "m", "e">>, dtype |-> <<"s", "t", "r", "i", "n", "g">>,
       values |-> <<StrCell(<<"O", "'", "B", "r", "i", "e", "n">>), StrCell(<<>>), StrCell(<<"'", "'">>), StrCell(<<"a", ",", " ", "b">>),
                    StrCell(<<"x">>)>>],
      [name |-> <<"b", "o", "r", "n">>, dtype |-> <<"d", "a", "t", "e">>,
       values |-> <<DateCell(2020, 1, 5), DateCell(1999, 12, 31), DateCell(2001, 10, 9),
                    DateCell(1970, 1, 1), DateCell(2024, 2, 29)>>],
      [name |-> <<"a", "t">>, dtype |-> <<"d", "a", "t", "e", "t", "i", "m", "e">>,
       values |-> <<DateTimeCell(2020, 1, 5, 7, 8, 9, FALSE, 0),
                    DateTimeCell(1999, 12, 31, 23, 59, 59, TRUE, 60),
                    DateTimeCell(2001, 10, 9, 0, 0, 0, TRUE, -330),
                    DateTimeCell(1970, 1, 1, 12, 0, 1, TRUE, 0),
                    DateTimeCell(2024, 2, 29, 1, 2, 3, FALSE, 0)>>],
      [name |-> <<"o", "k">>, dtype |-> <<"b", "o", "o", "l", "e", "a", "n">>,
       values |-> <<BoolCell(TRUE), BoolCell(FALSE), BoolCell(TRUE), BoolCell(TRUE),
                    BoolCell(FALSE)>>],
      [name |-> <<"t", "a", "g">>, dtype |-> <<"c", "a", "t", "e", "g", "o", "r", "i", "c", "a", "l">>,
       values |-> <<StrCell(<<"a">>), StrCell(<<"b", "'">>), StrCell(<<"a">>), StrCell(<<"c">>),
                    StrCell(<<"b", "'">>)>>],
      [name |-> <<"z">>, dtype |-> <<"c", "o", "m", "p", "l", "e", "x">>,
       values |-> <<ComplexCell(1, 2), ComplexCell(3, 4), ComplexCell(5, 6),
                    ComplexCell(7, 8), ComplexCell(9, 1)>>] }

\* the sequences of distinct pool columns, 1 to MaxCols long
ColumnLists ==
    {l \in SeqsOf(ColumnPool, 1, MaxCols) :
        \A i, j \in 1..Len(l) : i # j => l[i].name # l[j].name}

Tables ==
    {[c \in 1..Len(l) |-> [l[c] EXCEPT !.values = SubSeq(l[c].values, 1, R)]] :
        l \in ColumnLists, R \in 0..MaxRows}

TableNames == { <<"u", "s", "e", "r", "s">> }

Generators ==
    {SQLGenerator_init(cls, DefaultIndent) : cls \in Dialects}
    \cup {SQLGenerator_init("SQLiteGenerator", 0)}

\* constraint objects, as their constructors build them
ConstraintPool ==
    { PrimaryKey_init(StrArg(<<"i", "d">>)),
      ForeignKey_init(ListArg(<< <<"i", "d">>, <<"n", "a", "m", "e">> >>), <<"t">>, ListArg(<< <<"k">>, <<"i", "d">> >>),
                      Some(<<"c", "a", "s", "c", "a", "d", "e">>), None).value }

ConstraintArgs ==
    {None} \cup {Some(l) : l \in SeqsOf(ConstraintPool, 0, MaxConstraints)}

BatchArgs == (-MaxBatch)..MaxBatch

(***************************************************************************)
(* The generator: one call on a table.                                     *)
(***************************************************************************)
NoCall == [op |-> "none"]

Init ==
    /\ df \in Tables
    /\ obj = NoObject
    /\ ctor = NoCall
    /\ call = NoCall
    /\ ret = Return(<<>>)

GenerateSchema ==
    /\ call = NoCall
    /\ \E self \in Generators, table_name \in TableNames, constraints \in ConstraintArgs :
        /\ call' = [op |-> "generate_schema", self |-> self, table_name |-> table_name,
                    constraints |-> constraints]
        /\ ret' = generate_schema(self, df, table_name, constraints)
    /\ UNCHANGED <<df, obj, ctor>>

GenerateInserts ==
    /\ call = NoCall
    /\ \E self \in Generators, table_name \in TableNames, batch \in BatchArgs :
        /\ call' = [op |-> "generate_inserts", self |-> self, table_name |-> table_name,
                    batch |-> batch]
        /\ ret' = generate_inserts(self, df, table_name, batch)
    /\ UNCHANGED <<df, obj, ctor>>

Next == GenerateSchema \/ GenerateInserts

Spec == Init /\ [][Next]_vars

(***************************************************************************)
(* _quote on its own: one call on a string.                                *)
(***************************************************************************)
Alphabet == {"a", "'", " "}

Strings == SeqsOf(Alphabet, 0, MaxLen)

InitQuote ==
    /\ df = <<>>
    /\ obj = NoObject
    /\ ctor = NoCall
    /\ call = NoCall
    /\ ret = Return(<<>>)

Quote ==
    /\ call = NoCall
    /\ \E value \in Strings :
        /\ call' = [op |-> "_quote", value |-> value]
        /\ ret' = Return(_quote(value))
    /\ UNCHANGED <<df, obj, ctor>>

NextQuote == Quote

SpecQuote == InitQuote /\ [][NextQuote]_vars

(***************************************************************************)
(* Inputs of the constraint constructors.                                  *)
(***************************************************************************)
Names == { <<"i", "d">>, <<"n">> }

RefNames == { <<"i", "d">>, <<"k">> }

RefTables == { <<"t">> }

ColumnArgs == {StrArg(s) : s \in Names} \cup {ListArg(l) : l \in SeqsOf(Names, 1, MaxKeyCols)}

RefColumnArgs ==
    {StrArg(s) : s \in RefNames} \cup {ListArg(l) : l \in SeqsOf(RefNames, 1, MaxKeyCols)}

ActionArgs ==
    {None, Some(<<>>), Some(<<"C", "A", "S", "C", "A", "D", "E">>), Some(<<"c", "a", "s", "c", "a", "d", "e">>), Some(<<"S", "e", "t", " ", "N", "u", "l", "l">>),
     Some(<<"n", "o", " ", "a", "c", "t", "i", "o", "n">>), Some(<<"D", "R", "O", "P">>), Some(<<"d", "r", "o", "p">>)}

(***************************************************************************)
(* The constraint objects: construction, then rendering.                   *)
(***************************************************************************)
InitConstraint ==
    /\ df = <<>>
    /\ obj = NoObject
    /\ ctor = NoCall
    /\ call = NoCall
    /\ ret = Return(<<>>)

NewPrimaryKey ==
    /\ ctor = NoCall
    /\ \E columns \in ColumnArgs :
        /\ ctor' = [op |-> "PrimaryKey", columns |-> columns]
        /\ call' = ctor'
        /\ obj' = PrimaryKey_init(columns)
        /\ ret' = Return(<<>>)
    /\ UNCHANGED df

NewForeignKey ==
    /\ ctor = NoCall
    /\ \E columns \in ColumnArgs, ref_table \in RefTables, ref_columns \in RefColumnArgs,
       delete \in ActionArgs, update \in ActionArgs :
        LET r == ForeignKey_init(columns, ref_table, ref_columns, delete, update)
        IN  /\ ctor' = [op |-> "ForeignKey", columns |-> columns, ref_table |-> ref_table,
                       ref_columns |-> ref_columns, delete |-> delete, update |-> update]
            /\ call' = ctor'
            /\ obj' = IF r.kind = "return" THEN r.value ELSE NoObject
            /\ ret' = IF r.kind = "return" THEN Return(<<>>) ELSE r
    /\ UNCHANGED df

Make ==
    /\ obj # NoObject
    /\ \E id_fn \in Dialects :
        /\ call' = [op |-> "make", id_fn |-> id_fn]
        /\ ret' = Return(make(obj, id_fn))
    /\ UNCHANGED <<df, obj, ctor>>

NextConstraint == NewPrimaryKey \/ NewForeignKey \/ Make

SpecConstraint == InitConstraint /\ [][NextConstraint]_vars

(***************************************************************************)
(* Reading generated text back.                                            *)
(***************************************************************************)
IsPrefix(p, s) == Len(p) <= Len(s) /\ SubSeq(s, 1, Len(p)) = p

IsSuffix(p, s) == Len(p) <= Len(s) /\ SubSeq(s, Len(s) - Len(p) + 1, Len(s)) = p

\* the first position at which pat occurs in s, or 0
Find(s, pat) ==
    LET hits == {i \in 1..(Len(s) - Len(pat) + 1) : SubSeq(s, i, i + Len(pat) - 1) = pat}
    IN  IF hits = {} THEN 0 ELSE CHOOSE i \in hits : \A j \in hits : i <= j

\* s split at every occurrence of the separator (one piece for an unseparated s)
RECURSIVE Split(_, _)
Split(s, sep) ==
    LET at == Find(s, sep)
    IN  IF at = 0 THEN <<s>>
        ELSE <<SubSeq(s, 1, at - 1)>> \o Split(SubSeq(s, at + Len(sep), Len(s)), sep)

\* the concatenation of a list of lists
RECURSIVE Concat(_)
Concat(lists) == IF lists = <<>> THEN <<>> ELSE Head(lists) \o Concat(Tail(lists))

\* ceil(a / b) for a >= 0, b >= 1
CeilDiv(a, b) == (a + b - 1) \div b

Min(a, b) == IF a < b THEN a ELSE b

\* the row tuples of one INSERT statement: the lines between VALUES and the closing ;
RowTuples(statement) ==
    LET marker == <<"\n", "V", "A", "L", "U", "E", "S", "\n">>
        from == Find(statement, marker) + Len(marker)
        upto == Len(statement) - Len(<<"\n", ";", "\n", "\n">>)
    IN  Split(SubSeq(statement, from, upto), <<",", "\n">>)

(***************************************************************************)
(* Claims about generate_inserts and generate_schema, under Spec.          *)
(***************************************************************************)
\* C1: for R >= 0 rows and a batch size B >= 1, generate_inserts returns ceil(R / B)
\* statements, the k-th holds min(B, rows remaining) row tuples, and the row tuples of
\* all statements in order are the table's formatted rows in their original order.
C1_Batching ==
    (call.op = "generate_inserts" /\ call.batch >= 1) =>
        LET R == len(df)
            B == call.batch
        IN  /\ ret.kind = "return"
            /\ Len(ret.value) = CeilDiv(R, B)
            /\ \A k \in 1..Len(ret.value) :
                  Len(RowTuples(ret.value[k])) = Min(B, R - (k - 1) * B)
            /\ Concat([k \in 1..Len(ret.value) |-> RowTuples(ret.value[k])])
                  = row_strings(call.self, df)

C1_Witness ==
    /\ call.op = "generate_inserts"
    /\ call.batch = 2
    /\ len(df) = 3
    /\ ret.kind = "return"
    /\ Len(ret.value) = 2

\* C2: generate_inserts with a batch size <= 0 is rejected with an error for every
\* table; it never returns a list of statements.
C2_NonPositiveBatchRejected ==
    (call.op = "generate_inserts" /\ call.batch <= 0) => ret.kind = "raise"

\* the spec's example: users(id, name) with the row (1, "O'Brien") under PostgreSQL
ExampleInserts ==
    (/\ call.op = "generate_inserts"
     /\ call.self = SQLGenerator_init("PostgreSQLGenerator", DefaultIndent)
     /\ call.batch >= 1
     /\ Len(df) = 2 /\ df[1].name = <<"i", "d">> /\ df[2].name = <<"n", "a", "m", "e">> /\ len(df) = 1)
    => ret = Return(<< <<"I", "N", "S", "E", "R", "T", " ", "I", "N", "T", "O", " ", "\"", "u", "s", "e", "r", "s", "\"", " ", "(", "\"", "i", "d", "\"", ",", " ", "\"", "n", "a", "m", "e", "\"", ")", "\n", "V", "A", "L", "U", "E", "S", "\n", " ", " ", "(", "1", ",", " ", "'", "O", "'", "'", "B", "r", "i", "e", "n", "'", ")", "\n", ";", "\n", "\n">> >>)

\* the classifications the type mapping holds
MappedClasses == {p[1] : p \in _SQL_TYPES}

\* the positions of the columns whose classification the mapping lacks
UnsupportedColumns(frame) == {i \in 1..Len(frame) : frame[i].dtype \notin MappedClasses}

\* C5: generate_schema on a table with a column whose classification is missing from
\* the type mapping raises an error that names that column and its type, and returns
\* no text, wherever the column stands and whatever constraints are given;
\* generate_inserts never raises that error.
C5_UnsupportedTypeAbortsSchema ==
    /\ (call.op = "generate_schema" /\ UnsupportedColumns(df) # {}) =>
          LET first == CHOOSE i \in UnsupportedColumns(df) :
                           \A j \in UnsupportedColumns(df) : i <= j
          IN  /\ ret.kind = "raise"
              /\ ret.exc = "TypeError"
              /\ Find(ret.msg, <<"'">> \o df[first].dtype \o <<"'">>) > 0
              /\ Find(ret.msg, <<"'">> \o df[first].name \o <<"'">>) > 0
    /\ call.op = "generate_inserts" =>
          ~(ret.kind = "raise" /\ ret.exc = "TypeError")

C5_Witness ==
    /\ call.op = "generate_schema"
    /\ Len(df) = 2
    /\ UnsupportedColumns(df) = {2}
    /\ call.constraints.given
    /\ call.constraints.v # <<>>
    /\ ret.kind = "raise"

\* the text between the "CREATE TABLE <name> (\n" opening and the "\n);\n" closing
SchemaBody(text, table) ==
    LET opening == <<"C", "R", "E", "A", "T", "E", " ", "T", "A", "B", "L", "E", " ">> \o table \o <<" ", "(", "\n">>
    IN  SubSeq(text, Len(opening) + 1, Len(text) - Len(<<"\n", ")", ";", "\n">>))

\* the SQL type keyword of a classification
TypeKeyword(dtype) == (CHOOSE p \in _SQL_TYPES : p[1] = dtype)[2]

\* C6: for a table of N supported columns and M constraints the body of the
\* generate_schema output is N + M lines joined by ",\n": the N column lines
\* "<quoted name> <SQL type>" in column order, then the M constraint clauses in the
\* order given, each line behind the configured indent; with no constraints (an empty
\* list, or none given) exactly the N column lines.
C6_SchemaLines ==
    (call.op = "generate_schema" /\ UnsupportedColumns(df) = {}) =>
        LET cls == call.self.cls
            table == _id(cls, call.table_name)
            N == Len(df)
            given == IF call.constraints.given THEN call.constraints.v ELSE <<>>
            M == Len(given)
            lines == Split(SchemaBody(ret.value, table), <<",", "\n">>)
        IN  /\ ret.kind = "return"
            /\ IsPrefix(<<"C", "R", "E", "A", "T", "E", " ", "T", "A", "B", "L", "E", " ">> \o table \o <<" ", "(", "\n">>, ret.value)
            /\ IsSuffix(<<"\n", ")", ";", "\n">>, ret.value)
            /\ Len(lines) = N + M
            /\ \A i \in 1..N :
                  lines[i] = spaces(call.self._indent) \o _id(cls, df[i].name)
                             \o <<" ">> \o TypeKeyword(df[i].dtype)
            /\ \A j \in 1..M :
                  lines[N + j] = spaces(call.self._indent) \o make(given[j], cls)

C6_Witness ==
    /\ call.op = "generate_schema"
    /\ ret.kind = "return"
    /\ Len(df) = 2
    /\ call.constraints.given
    /\ Len(call.constraints.v) = 2
    /\ call.constraints.v[1] # call.constraints.v[2]

\* the identifier delimiter characters of a dialect
Delimiters(cls) ==
    CASE cls = "MSSQLGenerator" -> {"[", "]"}
      [] cls = "MySQLGenerator" -> {BACKTICK}
      [] cls = "PostgreSQLGenerator" -> {"\""}
      [] cls = "SQLiteGenerator" -> {"\""}

\* texts a (of dialect c1) and b (of dialect c2) are the same, character for
\* character, but for delimiter characters of the two dialects
SameButDelimiters(a, b, c1, c2) ==
    /\ Len(a) = Len(b)
    /\ \A i \in 1..Len(a) :
          a[i] # b[i] => (a[i] \in Delimiters(c1) /\ b[i] \in Delimiters(c2))

\* C9: for the same table, table name, constraints, indent and batch size the outputs
\* of generate_schema and of generate_inserts under the four dialects differ only in
\* identifier delimiter characters (and in no type keyword at all): lines, statements,
\* row tuples and value literals are the same in number, order and text.
C9_DialectsDifferOnlyInDelimiters ==
    \A cls \in Dialects :
        LET other == SQLGenerator_init(cls, call.self._indent)
        IN  /\ call.op = "generate_schema" =>
                  LET there == generate_schema(other, df, call.table_name, call.constraints)
                  IN  /\ there.kind = ret.kind
                      /\ ret.kind = "return" =>
                            SameButDelimiters(ret.value, there.value, call.self.cls, cls)
            /\ call.op = "generate_inserts" =>
                  LET there == generate_inserts(other, df, call.table_name, call.batch)
                  IN  /\ there.kind = ret.kind
                      /\ ret.kind = "return" =>
                            /\ Len(there.value) = Len(ret.value)
                            /\ \A k \in 1..Len(ret.value) :
                                  SameButDelimiters(ret.value[k], there.value[k],
                                                    call.self.cls, cls)

C9_Witness ==
    /\ call.op = "generate_inserts"
    /\ call.self.cls = "MySQLGenerator"
    /\ ret.kind = "return"
    /\ Len(ret.value) = 2
    /\ Len(df) = 2
    /\ ret.value # generate_inserts(SQLGenerator_init("MSSQLGenerator", call.self._indent),
                                    df, call.table_name, call.batch).value

(***************************************************************************)
(* The claim about _quote, under SpecQuote.                                *)
(***************************************************************************)
\* the number of single quotes in s
RECURSIVE CountQuotes(_)
CountQuotes(s) ==
    IF s = <<>> THEN 0
    ELSE (IF Head(s) = "'" THEN 1 ELSE 0) + CountQuotes(Tail(s))

\* s with every pair of single quotes read as one; a single quote on its own reads as
\* a character no string holds
RECURSIVE Undouble(_)
Undouble(s) ==
    IF s = <<>> THEN <<>>
    ELSE IF Head(s) # "'" THEN <<Head(s)>> \o Undouble(Tail(s))
    ELSE IF Len(s) >= 2 /\ s[2] = "'" THEN <<"'">> \o Undouble(SubSeq(s, 3, Len(s)))
    ELSE <<"unpaired quote">> \o Undouble(Tail(s))

\* C8: the literal of a string s with k single quotes is a single quote, s with each
\* single quote doubled and every other character unchanged and in order, and a single
\* quote: its length is Len(s) + k + 2 and un-doubling its interior gives s.
C8_QuoteDoublesEachQuoteOnce ==
    call.op = "_quote" =>
        LET s == call.value
            literal == ret.value
        IN  /\ Len(literal) = Len(s) + CountQuotes(s) + 2
            /\ literal[1] = "'"
            /\ literal[Len(literal)] = "'"
            /\ Undouble(SubSeq(literal, 2, Len(literal) - 1)) = s

C8_Witness ==
    /\ call.op = "_quote"
    /\ call.value = <<"'", "a", "'", "'">>
    /\ Len(ret.value) = 9

(***************************************************************************)
(* Claims about the constraints, under SpecConstraint.                     *)
(***************************************************************************)
\* a columns argument read as a list: a bare string is a one-element list
AsList(arg) == IF arg.isstr THEN <<arg.str>> ELSE arg.list

\* the quoted names of a list of columns, joined by ", "
QuotedList(cls, columns) ==
    join(<<",", " ">>, [i \in 1..Len(columns) |-> _id(cls, columns[i])])

\* an action is supplied and, compared case-insensitively, not one of the five
InvalidAction(a) ==
    a.given /\ upper(a.v) \notin { <<"C", "A", "S", "C", "A", "D", "E">>, <<"N", "O", " ", "A", "C", "T", "I", "O", "N">>, <<"R", "E", "S", "T", "R", "I", "C", "T">>,
                                  <<"S", "E", "T", " ", "N", "U", "L", "L">>, <<"S", "E", "T", " ", "D", "E", "F", "A", "U", "L", "T">> }

\* C10: a PrimaryKey over a non-empty column list renders as
\* CONSTRAINT <id_fn("PK_" + names joined by "_")> PRIMARY KEY (<id_fn(col), ...>),
\* quoted by the injected quoter only; a ForeignKey's name is derived the same way
\* with FK_ from its local columns; a bare string renders as a one-element list.
C10_ConstraintNames ==
    call.op = "make" =>
        LET cls == call.id_fn
            columns == AsList(ctor.columns)
        IN  IF ctor.op = "PrimaryKey"
            THEN ret.value = <<"C", "O", "N", "S", "T", "R", "A", "I", "N", "T", " ">> \o _id(cls, <<"P", "K", "_">> \o join(<<"_">>, columns))
                             \o <<" ", "P", "R", "I", "M", "A", "R", "Y", " ", "K", "E", "Y", " ", "(">> \o QuotedList(cls, columns) \o <<")">>
            ELSE IsPrefix(<<"C", "O", "N", "S", "T", "R", "A", "I", "N", "T", " ">> \o _id(cls, <<"F", "K", "_">> \o join(<<"_">>, columns))
                          \o <<" ", "F", "O", "R", "E", "I", "G", "N", " ", "K", "E", "Y", " ", "(">> \o QuotedList(cls, columns) \o <<")">>,
                          ret.value)

C10_Witness ==
    /\ call.op = "make"
    /\ ctor.op = "PrimaryKey"
    /\ ctor.columns.isstr
    /\ ctor.columns.str = <<"i", "d">>
    /\ call.id_fn = "MSSQLGenerator"
    /\ ret.value = <<"C", "O", "N", "S", "T", "R", "A", "I", "N", "T", " ", "[", "P", "K", "_", "i", "d", "]", " ", "P", "R", "I", "M", "A", "R", "Y", " ", "K", "E", "Y", " ", "(", "[", "i", "d", "]", ")">>

\* C3: the REFERENCES <quoted ref table>(...) list of a rendered ForeignKey is the
\* quoted names of the referenced columns in order, not those of the local columns.
C3_ReferencesNamesReferencedColumns ==
    (call.op = "make" /\ ctor.op = "ForeignKey") =>
        LET cls == call.id_fn
            at == Find(ret.value, <<" ", "R", "E", "F", "E", "R", "E", "N", "C", "E", "S", " ">>)
            clause == SubSeq(ret.value, at + Len(<<" ", "R", "E", "F", "E", "R", "E", "N", "C", "E", "S", " ">>), Len(ret.value))
        IN  /\ at > 0
            /\ IsPrefix(_id(cls, ctor.ref_table) \o <<"(">>
                        \o QuotedList(cls, AsList(ctor.ref_columns)) \o <<")">>, clause)

\* C4: constructing a ForeignKey with a delete or update action that is, compared
\* case-insensitively, none of CASCADE, NO ACTION, RESTRICT, SET NULL, SET DEFAULT
\* fails at construction, so that no ForeignKey object carries such an action; every
\* action of the five, in any letter case, is accepted.
C4_InvalidActionFailsConstruction ==
    /\ call.op = "ForeignKey" =>
          ((InvalidAction(ctor.delete) \/ InvalidAction(ctor.update)) <=> ret.kind = "raise")
    /\ obj.cls = "ForeignKey" => (~InvalidAction(obj.delete) /\ ~InvalidAction(obj.update))

\* the action keyword a rendered clause shows after the marker, if the marker is there
ShowsAction(text, marker, action) ==
    LET at == Find(text, marker)
    IN  at > 0 /\ IsPrefix(upper(action), SubSeq(text, at + Len(marker), Len(text)))

\* C7: a rendered ForeignKey has " ON DELETE <action>" exactly when a delete action
\* was supplied and " ON UPDATE <action>" exactly when an update action was supplied
\* (a supplied empty action is not silently dropped); ON DELETE comes before ON
\* UPDATE; the keyword shown is the upper-cased input.
C7_ActionClausesIffSupplied ==
    (call.op = "make" /\ ctor.op = "ForeignKey") =>
        LET d == Find(ret.value, <<" ", "O", "N", " ", "D", "E", "L", "E", "T", "E", " ">>)
            u == Find(ret.value, <<" ", "O", "N", " ", "U", "P", "D", "A", "T", "E", " ">>)
        IN  /\ (d > 0) <=> ctor.delete.given
            /\ (u > 0) <=> ctor.update.given
            /\ ctor.delete.given => ShowsAction(ret.value, <<" ", "O", "N", " ", "D", "E", "L", "E", "T", "E", " ">>, ctor.delete.v)
            /\ ctor.update.given => IsSuffix(<<" ", "O", "N", " ", "U", "P", "D", "A", "T", "E", " ">> \o upper(ctor.update.v), ret.value)
            /\ (d > 0 /\ u > 0) => d < u

\* C7 and C4 apart from the empty action: what the code does for every other input
C7_ExceptEmptyAction ==
    (call.op = "make" /\ ctor.op = "ForeignKey"
     /\ ctor.delete # Some(<<>>) /\ ctor.update # Some(<<>>)) =>
        C7_ActionClausesIffSupplied

C4_ExceptEmptyAction ==
    (ctor.op = "ForeignKey" /\ ctor.delete # Some(<<>>) /\ ctor.update # Some(<<>>)) =>
        C4_InvalidActionFailsConstruction

\* C3 when the referenced columns are the local columns: the one case the code gets right
C3_WhenSameColumns ==
    (call.op = "make" /\ ctor.op = "ForeignKey"
     /\ AsList(ctor.ref_columns) = AsList(ctor.columns)) =>
        C3_ReferencesNamesReferencedColumns

====
